---- MODULE Spec2Model ----
(***************************************************************************)
(* Model of parliament/__init__.py: the ARN glob matcher is_arn_match and  *)
(* the catalog scan get_resource_type_from_arn.                            *)
(*                                                                         *)
(* A Python str is modelled as a sequence of one-character strings, so     *)
(* that split, join, slicing, "in" and re.sub are computed character by    *)
(* character.  The outcome of a call is "True", "False", one of the two    *)
(* Exceptions the function raises, or "IndexError" (what Python raises     *)
(* when s[0] / s[-1] is evaluated on an empty str).                        *)
(***************************************************************************)
EXTENDS Integers, Sequences, FiniteSets, TLC

VARIABLES
  pc,                \* position of the is_arn_match call: "idle", "call", "done"
  arg_resource_type, \* argument resource_type of the call
  arg_arn_format,    \* argument arn_format of the call
  arg_resource,      \* argument resource of the call
  result,            \* outcome of the call ("none" before it returns)
  rpc,               \* position of get_resource_type_from_arn: "idle", "loop", "done", "raised"
  iam_definition,    \* the catalog
  arn,               \* argument of get_resource_type_from_arn
  service_i,         \* index of the outer loop
  resource_i,        \* index of the inner loop
  printed            \* the lines printed so far, as <<service_name, resource>> pairs

vars == <<pc, arg_resource_type, arg_arn_format, arg_resource, result,
          rpc, iam_definition, arn, service_i, resource_i, printed>>

-----------------------------------------------------------------------------
(* Python string primitives *)

\* the strings of length at most n over the characters cs
StringsUpTo(cs, n) == UNION {[1..k -> cs] : k \in 0..n}

Min(x, y) == IF x < y THEN x ELSE y

\* index of the first occurrence of character c in s, 0 when absent
find(s, c) ==
  IF \E i \in 1..Len(s) : s[i] = c
  THEN CHOOSE i \in 1..Len(s) : s[i] = c /\ \A j \in 1..(i-1) : s[j] # c
  ELSE 0

\* s.split(sep) for a one-character separator
RECURSIVE split(_, _)
split(s, sep) ==
  LET i == find(s, sep)
  IN IF i = 0 THEN <<s>>
     ELSE <<SubSeq(s, 1, i-1)>> \o split(SubSeq(s, i+1, Len(s)), sep)

\* "".join(parts)
RECURSIVE join(_)
join(parts) ==
  IF parts = <<>> THEN <<>> ELSE Head(parts) \o join(Tail(parts))

\* sub in s
contains(sub, s) ==
  \E i \in 0..(Len(s) - Len(sub)) : SubSeq(s, i+1, i+Len(sub)) = sub

\* re.sub(r"\[.+?\]", "*", s): leftmost match, shortest body of at least one character
RECURSIVE sub_brackets(_)
sub_brackets(s) ==
  IF s = <<>> THEN <<>>
  ELSE IF s[1] = "[" /\ \E j \in 3..Len(s) : s[j] = "]"
       THEN LET j == CHOOSE k \in 3..Len(s) :
                       s[k] = "]" /\ \A m \in 3..(k-1) : s[m] # "]"
            IN <<"*">> \o sub_brackets(SubSeq(s, j+1, Len(s)))
       ELSE <<s[1]>> \o sub_brackets(Tail(s))

\* re.sub(r"\$\{.*?\}", "*", s): leftmost match, shortest (possibly empty) body
RECURSIVE sub_placeholders(_)
sub_placeholders(s) ==
  IF s = <<>> THEN <<>>
  ELSE IF Len(s) >= 3 /\ s[1] = "$" /\ s[2] = "{" /\ \E j \in 3..Len(s) : s[j] = "}"
       THEN LET j == CHOOSE k \in 3..Len(s) :
                       s[k] = "}" /\ \A m \in 3..(k-1) : s[m] # "}"
            IN <<"*">> \o sub_placeholders(SubSeq(s, j+1, Len(s)))
       ELSE <<s[1]>> \o sub_placeholders(Tail(s))

-----------------------------------------------------------------------------
(* is_arn_match *)

STAR == <<"*">>
BUCKET == <<"b", "u", "c", "k", "e", "t">>

\* mutation: only the second pattern is tested for "*"
universal_wildcard_second_only(arn_format, resource) ==
  resource = STAR

\* line 61
universal_wildcard(arn_format, resource) ==
  arn_format = STAR \/ resource = STAR

\* mutation: the resource type is compared with "bucket" instead of searched for it
bucket_special_case_equal(resource_type, resource) ==
  resource_type = BUCKET /\ contains(<<"/">>, resource)

\* lines 64-67
bucket_special_case(resource_type, resource) ==
  contains(BUCKET, resource_type) /\ contains(<<"/">>, resource)

\* mutation: the part count is compared with 5
too_few_parts_five(parts) == Len(parts) < 5

\* lines 71 and 74
too_few_parts(parts) == Len(parts) < 6

\* mutation: the branch for textually equal parts is missing
positions_compatible_no_equal(arn_parts, resource_parts) ==
  \A position \in 1..5 :
    \/ arn_parts[position] = STAR \/ arn_parts[position] = <<>>
    \/ resource_parts[position] = STAR \/ resource_parts[position] = <<>>

\* lines 76-84
positions_compatible(arn_parts, resource_parts) ==
  \A position \in 1..5 :
    \/ arn_parts[position] = STAR \/ arn_parts[position] = <<>>
    \/ resource_parts[position] = STAR \/ resource_parts[position] = <<>>
    \/ arn_parts[position] = resource_parts[position]

\* line 106
no_asterisk(arn_id, resource_id) ==
  ~ contains(STAR, arn_id) /\ ~ contains(STAR, resource_id)

\* line 113
bare_asterisk(arn_id, resource_id) ==
  arn_id = STAR \/ resource_id = STAR

\* mutation: the test for an empty identifier is missing
empty_id_missing(arn_id, resource_id) == FALSE

\* line 120
empty_id(arn_id, resource_id) ==
  arn_id = <<>> \/ resource_id = <<>>

\* mutation: the first characters of both identifiers are compared
wrap_around_first_chars(arn_id, resource_id) ==
  \/ arn_id[1] = "*" /\ resource_id[1] = "*"
  \/ arn_id[Len(arn_id)] = "*" /\ resource_id[1] = "*"

\* lines 126-128
wrap_around(arn_id, resource_id) ==
  \/ arn_id[1] = "*" /\ resource_id[Len(resource_id)] = "*"
  \/ arn_id[Len(arn_id)] = "*" /\ resource_id[1] = "*"

\* mutation: the inner literal is sliced one character short ([1:-2])
both_ends_short_slice(arn_id, resource_id) ==
  \/ /\ arn_id[1] = "*" /\ arn_id[Len(arn_id)] = "*"
     /\ contains(SubSeq(arn_id, 2, Len(arn_id) - 2), resource_id)
  \/ /\ resource_id[1] = "*" /\ resource_id[Len(resource_id)] = "*"
     /\ contains(SubSeq(resource_id, 2, Len(resource_id) - 2), arn_id)

\* lines 141-146
both_ends(arn_id, resource_id) ==
  \/ /\ arn_id[1] = "*" /\ arn_id[Len(arn_id)] = "*"
     /\ contains(SubSeq(arn_id, 2, Len(arn_id) - 1), resource_id)
  \/ /\ resource_id[1] = "*" /\ resource_id[Len(resource_id)] = "*"
     /\ contains(SubSeq(resource_id, 2, Len(resource_id) - 1), arn_id)

\* mutation: the prefix of the other identifier is taken one character too long
trailing_asterisk_long_prefix(arn_id, resource_id) ==
  \/ /\ arn_id[Len(arn_id)] = "*"
     /\ SubSeq(resource_id, 1, Min(Len(resource_id), Len(arn_id)))
          = SubSeq(arn_id, 1, Len(arn_id) - 1)
  \/ /\ resource_id[Len(resource_id)] = "*"
     /\ SubSeq(arn_id, 1, Min(Len(arn_id), Len(resource_id)))
          = SubSeq(resource_id, 1, Len(resource_id) - 1)

\* mutation: only the first identifier is tested for a trailing "*"
trailing_asterisk_one_way(arn_id, resource_id) ==
  /\ arn_id[Len(arn_id)] = "*"
  /\ SubSeq(resource_id, 1, Min(Len(resource_id), Len(arn_id) - 1))
       = SubSeq(arn_id, 1, Len(arn_id) - 1)

\* lines 149-154
trailing_asterisk(arn_id, resource_id) ==
  \/ /\ arn_id[Len(arn_id)] = "*"
     /\ SubSeq(resource_id, 1, Min(Len(resource_id), Len(arn_id) - 1))
          = SubSeq(arn_id, 1, Len(arn_id) - 1)
  \/ /\ resource_id[Len(resource_id)] = "*"
     /\ SubSeq(arn_id, 1, Min(Len(arn_id), Len(resource_id) - 1))
          = SubSeq(resource_id, 1, Len(resource_id) - 1)

\* lines 97-156: the comparison of the two identifiers
match_ids(arn_id_0, resource_id) ==
  IF arn_id_0 = resource_id THEN "True"
  ELSE LET arn_id == sub_brackets(arn_id_0)
       IN IF no_asterisk(arn_id, resource_id) THEN "False"
          ELSE IF bare_asterisk(arn_id, resource_id) THEN "True"
          ELSE IF empty_id(arn_id, resource_id) THEN "False"
          ELSE IF arn_id = <<>> \/ resource_id = <<>> THEN "IndexError"
          ELSE IF wrap_around(arn_id, resource_id) THEN "True"
          ELSE IF both_ends(arn_id, resource_id) THEN "True"
          ELSE IF trailing_asterisk(arn_id, resource_id) THEN "True"
          ELSE "False"

\* lines 33-156
is_arn_match(resource_type, arn_format, resource) ==
  IF universal_wildcard(arn_format, resource) THEN "True"
  ELSE IF bucket_special_case(resource_type, resource) THEN "False"
  ELSE LET arn_parts == split(arn_format, ":")
           resource_parts == split(resource, ":")
       IN IF too_few_parts(arn_parts) THEN "ExceptionARN"
          ELSE IF too_few_parts(resource_parts) THEN "ExceptionResource"
          ELSE IF ~ positions_compatible(arn_parts, resource_parts) THEN "False"
          ELSE match_ids(join(SubSeq(arn_parts, 6, Len(arn_parts))),
                         join(SubSeq(resource_parts, 6, Len(resource_parts))))

-----------------------------------------------------------------------------
(* The calls of is_arn_match that are explored *)

MaxGeneralLen == 2   \* identifier length in the calls that vary the five leading segments
MaxIdLen == 3        \* identifier length in the calls that vary the two glob identifiers
MaxBracketLen == 4   \* length of an identifier that may hold "[key]" placeholders
MaxPlainLen == 2     \* length of the identifier compared with a bracketed one

\* resource type names: two without "bucket", one with "bucket" inside a longer name
S3_OBJECT == <<"s", "3", ":", "o", "b", "j", "e", "c", "t">>
S3_BUCKET == <<"s", "3", ":", "b", "u", "c", "k", "e", "t">>
EC2_INSTANCE == <<"i", "n", "s", "t", "a", "n", "c", "e">>
ResourceTypes == {S3_OBJECT, S3_BUCKET, EC2_INSTANCE}

\* the five leading segments, with the colon that ends them
ARN_AWS_S3 == <<"a", "r", "n", ":", "a", "w", "s", ":", "s", "3", ":", ":", ":">>
ARN_ANY_S3 == <<"a", "r", "n", ":", "*", ":", "s", "3", ":", ":", ":">>
ARN_AWS_EC2 == <<"a", "r", "n", ":", "a", "w", "s", ":", "e", "c", "2", ":", ":", ":">>
ARN_AWS_S3_REGION == <<"a", "r", "n", ":", "a", "w", "s", ":", "s", "3", ":", "u", "s", ":", "1", ":">>
Prefixes == {ARN_AWS_S3, ARN_ANY_S3, ARN_AWS_EC2, ARN_AWS_S3_REGION}

\* strings with fewer than six colon-delimited parts, the docstring's bare identifiers among them
ID_SLASH == <<"*", "/", "*">>
ID_MYBUCKET == <<"m", "y", "b", "u", "c", "k", "e", "t">>
FIVE_PARTS == <<"a", "r", "n", ":", "a", "w", "s", ":", "s", "3", ":", ":", "a">>
FIVE_PARTS_SLASH == <<"a", "r", "n", ":", "a", "w", "s", ":", "s", "3", ":", ":", "a", "/">>
ShortStrings == {<<>>, <<"a">>, ID_SLASH, ID_MYBUCKET, FIVE_PARTS, FIVE_PARTS_SLASH}

\* the docstring's identifiers "*/*" and "mybucket" behind five leading segments
ARN_SLASH == ARN_AWS_S3 \o ID_SLASH
ARN_MYBUCKET == ARN_AWS_S3 \o ID_MYBUCKET

GeneralPatterns ==
  {p \o id : p \in Prefixes, id \in StringsUpTo({"a", "*", "/", ":"}, MaxGeneralLen)}
    \cup ShortStrings \cup {STAR, ARN_SLASH, ARN_MYBUCKET}

GlobPatterns ==
  {ARN_AWS_S3 \o id : id \in StringsUpTo({"a", "b", "*"}, MaxIdLen)}

BracketPatterns ==
  {ARN_AWS_S3 \o id : id \in StringsUpTo({"a", "*", "[", "]"}, MaxBracketLen)}

PlainPatterns ==
  {ARN_AWS_S3 \o id : id \in StringsUpTo({"a", "*"}, MaxPlainLen)}

Calls ==
  (GeneralPatterns \X GeneralPatterns)
    \cup (GlobPatterns \X GlobPatterns)
    \cup (BracketPatterns \X PlainPatterns)
    \cup (PlainPatterns \X BracketPatterns)

-----------------------------------------------------------------------------
(* The state machine of one call of is_arn_match *)

ResolverIdle ==
  /\ rpc = "idle" /\ iam_definition = <<>> /\ arn = <<>>
  /\ service_i = 0 /\ resource_i = 0 /\ printed = <<>>

Init ==
  /\ pc = "call"
  /\ arg_resource_type \in ResourceTypes
  /\ \E c \in Calls : arg_arn_format = c[1] /\ arg_resource = c[2]
  /\ result = "none"
  /\ ResolverIdle

IsArnMatch ==
  /\ pc = "call"
  /\ result' = is_arn_match(arg_resource_type, arg_arn_format, arg_resource)
  /\ pc' = "done"
  /\ UNCHANGED <<arg_resource_type, arg_arn_format, arg_resource,
                 rpc, iam_definition, arn, service_i, resource_i, printed>>

Next == IsArnMatch

Spec == Init /\ [][Next]_vars

TypeOK ==
  /\ pc \in {"call", "done", "idle"}
  /\ result \in {"none", "True", "False", "ExceptionARN", "ExceptionResource", "IndexError"}

-----------------------------------------------------------------------------
(* get_resource_type_from_arn over a catalog *)

MaxServices == 2    \* services in the catalog
MaxResources == 2   \* resources of one service

S3 == <<"s", "3">>
EC2 == <<"e", "c", "2">>
BUCKET_TEMPLATE ==
  <<"a", "r", "n", ":", "$", "{", "P", "}", ":", "s", "3", ":", ":", ":", "$", "{", "B", "}">>
OBJECT_TEMPLATE ==
  <<"a", "r", "n", ":", "$", "{", "P", "}", ":", "s", "3", ":", ":", ":", "$", "{", "B", "}",
    "/", "$", "{", "O", "}">>
EC2_INSTANCE_TEMPLATE ==
  <<"a", "r", "n", ":", "$", "{", "P", "}", ":", "e", "c", "2", ":", "$", "{", "R", "}", ":",
    "$", "{", "A", "}", ":", "i", "-", "$", "{", "I", "}">>

\* resource records as iam_definition.json holds them: "resource" and "arn"
S3Resources ==
  { [resource |-> S3_BUCKET, arn |-> BUCKET_TEMPLATE],
    [resource |-> S3_OBJECT, arn |-> OBJECT_TEMPLATE] }

EC2Resources ==
  { [resource |-> EC2_INSTANCE, arn |-> EC2_INSTANCE_TEMPLATE] }

\* service records: a name and an ordered list of the service's resource records
ServiceRecords ==
  { [service_name |-> S3, resources |-> rs] : rs \in StringsUpTo(S3Resources, MaxResources) }
    \cup
  { [service_name |-> EC2, resources |-> rs] : rs \in StringsUpTo(EC2Resources, MaxResources) }

Catalogs == StringsUpTo(ServiceRecords, MaxServices)

ARN_BUCKET_A == ARN_AWS_S3 \o <<"a">>
ARN_OBJECT_A_B == ARN_AWS_S3 \o <<"a", "/", "b">>
ARN_EC2_I == <<"a", "r", "n", ":", "a", "w", "s", ":", "e", "c", "2", ":", "u", "s", ":", "1", ":",
               "i", "-", "*">>
ARN_ANY_SERVICE == <<"a", "r", "n", ":", "a", "w", "s", ":", "*", ":", ":", ":", "i", "-", "a">>
ARN_IAM == <<"a", "r", "n", ":", "a", "w", "s", ":", "i", "a", "m", ":", ":", ":", "a">>
Arns == {ARN_BUCKET_A, ARN_OBJECT_A_B, ARN_EC2_I, ARN_ANY_SERVICE, ARN_IAM, STAR, <<"a">>}

\* mutation: the arn and the normalised template are passed in the other order
match_resource_swapped(resource, arn_arg) ==
  is_arn_match(resource.resource, sub_placeholders(resource.arn), arn_arg)

\* lines 162-163: the outcome of the test made on one resource record
match_resource(resource, arn_arg) ==
  is_arn_match(resource.resource, arn_arg, sub_placeholders(resource.arn))

MatcherIdle ==
  /\ pc = "idle" /\ arg_resource_type = <<>> /\ arg_arn_format = <<>>
  /\ arg_resource = <<>> /\ result = "none"

InitResolver ==
  /\ rpc = "loop"
  /\ iam_definition \in Catalogs
  /\ arn \in Arns
  /\ service_i = 1
  /\ resource_i = 1
  /\ printed = <<>>
  /\ MatcherIdle

\* lines 161-164: one iteration of the inner loop
ResourceLoopBody ==
  /\ rpc = "loop"
  /\ service_i <= Len(iam_definition)
  /\ resource_i <= Len(iam_definition[service_i].resources)
  /\ LET service == iam_definition[service_i]
         resource == service.resources[resource_i]
         matched == match_resource(resource, arn)
     IN IF matched = "True"
        THEN /\ printed' = Append(printed, <<service.service_name, resource.resource>>)
             /\ resource_i' = resource_i + 1
             /\ rpc' = rpc
        ELSE IF matched = "False"
        THEN /\ resource_i' = resource_i + 1
             /\ UNCHANGED <<printed, rpc>>
        ELSE /\ rpc' = "raised"
             /\ UNCHANGED <<printed, resource_i>>
  /\ UNCHANGED <<pc, arg_resource_type, arg_arn_format, arg_resource, result,
                 iam_definition, arn, service_i>>

\* line 160: the inner loop is exhausted, the outer loop takes the next service
NextService ==
  /\ rpc = "loop"
  /\ service_i <= Len(iam_definition)
  /\ resource_i > Len(iam_definition[service_i].resources)
  /\ service_i' = service_i + 1
  /\ resource_i' = 1
  /\ UNCHANGED <<pc, arg_resource_type, arg_arn_format, arg_resource, result,
                 rpc, iam_definition, arn, printed>>

\* line 160: the outer loop is exhausted, the function returns
Return ==
  /\ rpc = "loop"
  /\ service_i > Len(iam_definition)
  /\ rpc' = "done"
  /\ UNCHANGED <<pc, arg_resource_type, arg_arn_format, arg_resource, result,
                 iam_definition, arn, service_i, resource_i, printed>>

NextResolver == ResourceLoopBody \/ NextService \/ Return

SpecResolver == InitResolver /\ [][NextResolver]_vars

-----------------------------------------------------------------------------
(* Vocabulary of the properties *)

Done == pc = "done"

\* the string has at least six colon-delimited parts
WellFormed(p) == Len(split(p, ":")) >= 6

\* the string has exactly six colon-delimited parts
SixParts(p) == Len(split(p, ":")) = 6

\* the identifier portion of a well-formed pattern: parts 5 onward, rejoined without colons
Identifier(p) == LET parts == split(p, ":") IN join(SubSeq(parts, 6, Len(parts)))

\* the leading part at position i (0-based positions 0..4 are i = 1..5)
Part(p, i) == split(p, ":")[i]

HasBucket(t) == \E i \in 0..(Len(t) - 6) : SubSeq(t, i+1, i+6) = <<"b", "u", "c", "k", "e", "t">>

HasChar(p, c) == \E i \in 1..Len(p) : p[i] = c

EndsWithStar(id) == Len(id) > 0 /\ id[Len(id)] = "*"

Raised(r) == r \in {"ExceptionARN", "ExceptionResource"}

\* the bucket rule applies to the call in the current state
BucketRuleApplies == HasBucket(arg_resource_type) /\ HasChar(arg_resource, "/")

\* parts 0-4 of the two well-formed arguments are pairwise compatible
LeadingPartsCompatible ==
  \A i \in 1..5 :
    \/ Part(arg_arn_format, i) \in {<<"*">>, <<>>}
    \/ Part(arg_resource, i) \in {<<"*">>, <<>>}
    \/ Part(arg_arn_format, i) = Part(arg_resource, i)

\* the outcome of a call, with the two malformed-ARN exceptions taken as one
Outcome(r) == IF Raised(r) THEN "Exception" ELSE r

\* the glob p (with "*" for zero or more characters) matches the concrete string w
RECURSIVE GlobMatches(_, _)
GlobMatches(p, w) ==
  IF p = <<>> THEN w = <<>>
  ELSE IF p[1] = "*"
       THEN GlobMatches(Tail(p), w) \/ (w # <<>> /\ GlobMatches(p, Tail(w)))
       ELSE w # <<>> /\ w[1] = p[1] /\ GlobMatches(Tail(p), Tail(w))

Literals(id) == {id[i] : i \in 1..Len(id)} \ {"*"}

\* some concrete string over the literals of the two globs is matched by both
GlobsIntersect(p, q) ==
  \E w \in StringsUpTo(Literals(p) \cup Literals(q), Len(p) + Len(q)) :
    GlobMatches(p, w) /\ GlobMatches(q, w)

-----------------------------------------------------------------------------
(* Properties of is_arn_match *)

\* C1: whenever either whole pattern is exactly "*" the call returns true,
\* whatever the hint and the other pattern are (a bucket hint with a "/" in
\* the second pattern, or a malformed other pattern, included).
C1_UniversalWildcard ==
  Done /\ (arg_arn_format = <<"*">> \/ arg_resource = <<"*">>) => result = "True"

\* reached: "*" as first pattern wins over the bucket rule
C1_Witness ==
  /\ Done /\ arg_arn_format = <<"*">> /\ BucketRuleApplies
  /\ result = "True"

\* C2 as stated: a bucket hint and a "/" in the second pattern's identifier
\* give false for every first pattern.
C2_Original ==
  Done /\ HasBucket(arg_resource_type) /\ WellFormed(arg_resource)
       /\ HasChar(Identifier(arg_resource), "/")
    => result = "False"

\* C2 amended: a bucket hint and a "/" in the second pattern's identifier
\* give false for every first pattern other than the whole pattern "*".
C2_BucketExclusion ==
  Done /\ HasBucket(arg_resource_type) /\ WellFormed(arg_resource)
       /\ HasChar(Identifier(arg_resource), "/")
       /\ arg_arn_format # <<"*">>
    => result = "False"

\* reached: the bucket rule answers false although the first pattern is malformed
C2_Witness ==
  /\ Done /\ HasBucket(arg_resource_type) /\ WellFormed(arg_resource)
  /\ HasChar(Identifier(arg_resource), "/")
  /\ ~ WellFormed(arg_arn_format) /\ arg_arn_format # <<"*">>
  /\ result = "False"

\* C3 as stated: a pattern with fewer than six parts, in either position,
\* ends in the malformed-ARN error whatever the other argument is.
C3_Original ==
  Done /\ (~ WellFormed(arg_arn_format) \/ ~ WellFormed(arg_resource))
    => Raised(result)

\* C3 amended: a pattern with fewer than six parts, in either position, ends
\* in the malformed-ARN error unless one of the patterns is exactly "*" or
\* the bucket rule applies (bucket hint and "/" in the second pattern).
C3_MalformedRaises ==
  Done /\ (~ WellFormed(arg_arn_format) \/ ~ WellFormed(arg_resource))
       /\ arg_arn_format # <<"*">> /\ arg_resource # <<"*">>
       /\ ~ BucketRuleApplies
    => Raised(result)

\* reached: a five-part second pattern raises against a well-formed first one
C3_Witness ==
  /\ Done /\ WellFormed(arg_arn_format)
  /\ Len(split(arg_resource, ":")) = 5
  /\ result = "ExceptionResource"

\* C4 as stated: a well-formed pattern matches itself under every hint.
C4_Original ==
  Done /\ WellFormed(arg_arn_format) /\ arg_arn_format = arg_resource
    => result = "True"

\* C4 amended: a well-formed pattern matches itself unless the hint contains
\* "bucket" and the pattern contains "/", in which case the call returns false.
C4_Reflexive ==
  Done /\ WellFormed(arg_arn_format) /\ arg_arn_format = arg_resource
    => result = (IF BucketRuleApplies THEN "False" ELSE "True")

\* reached: a bucket hint, a pattern without "/" compared with itself
C4_Witness ==
  /\ Done /\ WellFormed(arg_arn_format) /\ arg_arn_format = arg_resource
  /\ HasBucket(arg_resource_type) /\ Identifier(arg_arn_format) # <<>>
  /\ result = "True"

\* C6: two well-formed patterns always get a boolean, never an error.
C6_DefiniteAnswer ==
  Done /\ WellFormed(arg_arn_format) /\ WellFormed(arg_resource)
    => result \in {"True", "False"}

\* reached: an empty identifier against a glob that is not the bare "*"
C6_Witness ==
  /\ Done /\ WellFormed(arg_arn_format) /\ WellFormed(arg_resource)
  /\ ~ BucketRuleApplies /\ LeadingPartsCompatible
  /\ Identifier(arg_arn_format) = <<>>
  /\ HasChar(Identifier(arg_resource), "*") /\ Identifier(arg_resource) # <<"*">>
  /\ result = "False"

\* C7 as stated: the call ("s3:object", "*/*", "mybucket") on the bare
\* identifiers returns false.
C7_Original ==
  Done /\ arg_resource_type = S3_OBJECT
       /\ arg_arn_format = ID_SLASH /\ arg_resource = ID_MYBUCKET
    => result = "False"

\* C7 amended: on the bare identifiers the call ends in the malformed-ARN
\* error; with each identifier behind five leading parts
\* ("arn:aws:s3:::*/*" and "arn:aws:s3:::mybucket") it returns false.
C7_Scenario ==
  Done /\ arg_resource_type = S3_OBJECT =>
    /\ arg_arn_format = ID_SLASH /\ arg_resource = ID_MYBUCKET => Raised(result)
    /\ arg_arn_format = ARN_SLASH /\ arg_resource = ARN_MYBUCKET => result = "False"

\* reached: the scenario on well-formed patterns
C7_Witness ==
  /\ Done /\ arg_resource_type = S3_OBJECT
  /\ arg_arn_format = ARN_SLASH /\ arg_resource = ARN_MYBUCKET
  /\ result = "False"

\* C8 as stated: leading parts compatible, no bucket rule, and the first
\* identifier equal to the second after bracket replacement give true.
C8_Original ==
  Done /\ WellFormed(arg_arn_format) /\ WellFormed(arg_resource)
       /\ ~ BucketRuleApplies /\ LeadingPartsCompatible
       /\ sub_brackets(Identifier(arg_arn_format)) = Identifier(arg_resource)
    => result = "True"

\* C8 amended: the equality test is made before bracket replacement; under
\* the same conditions the call returns true when the identifiers are equal
\* as given, and when they are equal only after replacement it returns true
\* exactly when the identifier ends with "*".
C8_BracketEquality ==
  Done /\ WellFormed(arg_arn_format) /\ WellFormed(arg_resource)
       /\ ~ BucketRuleApplies /\ LeadingPartsCompatible
       /\ sub_brackets(Identifier(arg_arn_format)) = Identifier(arg_resource)
    => result = (IF \/ Identifier(arg_arn_format) = Identifier(arg_resource)
                    \/ EndsWithStar(Identifier(arg_resource))
                 THEN "True" ELSE "False")

\* reached: "lit[key]" against "lit*", equal only after replacement
C8_Witness ==
  /\ Done /\ WellFormed(arg_arn_format) /\ WellFormed(arg_resource)
  /\ ~ BucketRuleApplies /\ LeadingPartsCompatible
  /\ Identifier(arg_arn_format) # Identifier(arg_resource)
  /\ sub_brackets(Identifier(arg_arn_format)) = Identifier(arg_resource)
  /\ EndsWithStar(Identifier(arg_resource))
  /\ Identifier(arg_resource)[1] # "*"
  /\ result = "True"

\* C9: for a hint without "bucket" and two patterns without "[", the call
\* and the call with the two patterns exchanged have the same outcome.
C9_Symmetric ==
  Done /\ ~ HasBucket(arg_resource_type)
       /\ ~ HasChar(arg_arn_format, "[") /\ ~ HasChar(arg_resource, "[")
    => Outcome(result)
         = Outcome(is_arn_match(arg_resource_type, arg_resource, arg_arn_format))

\* reached: a literal first identifier against a longer-prefix glob "lit*"
C9_Witness ==
  /\ Done /\ ~ HasBucket(arg_resource_type)
  /\ WellFormed(arg_arn_format) /\ WellFormed(arg_resource)
  /\ ~ HasChar(arg_arn_format, "[") /\ ~ HasChar(arg_resource, "[")
  /\ ~ HasChar(Identifier(arg_arn_format), "*")
  /\ EndsWithStar(Identifier(arg_resource)) /\ Len(Identifier(arg_resource)) >= 2
  /\ Len(Identifier(arg_arn_format)) > Len(Identifier(arg_resource))
  /\ result = "True"

\* C10: for a hint without "bucket" and two six-part patterns whose
\* identifiers (of at most MaxIdLen characters) hold no "[", a true answer
\* implies that some concrete string is matched by both identifier globs.
C10_NoFalsePositive ==
  Done /\ ~ HasBucket(arg_resource_type)
       /\ SixParts(arg_arn_format) /\ SixParts(arg_resource)
       /\ ~ HasChar(Identifier(arg_arn_format), "[")
       /\ ~ HasChar(Identifier(arg_resource), "[")
       /\ Len(Identifier(arg_arn_format)) <= MaxIdLen
       /\ Len(Identifier(arg_resource)) <= MaxIdLen
       /\ result = "True"
    => GlobsIntersect(Identifier(arg_arn_format), Identifier(arg_resource))

\* reached: "*a" against "b*", true by the wrap-around rule
C10_Witness ==
  /\ Done /\ arg_resource_type = S3_OBJECT
  /\ arg_arn_format = ARN_AWS_S3 \o <<"*", "a">>
  /\ arg_resource = ARN_AWS_S3 \o <<"b", "*">>
  /\ result = "True"

-----------------------------------------------------------------------------
(* Properties of get_resource_type_from_arn *)

\* the catalog entries in catalog order, as <<service_name, resource record>>
RECURSIVE Entries(_)
Entries(catalog) ==
  IF catalog = <<>> THEN <<>>
  ELSE [i \in 1..Len(Head(catalog).resources) |->
          <<Head(catalog).service_name, Head(catalog).resources[i]>>]
         \o Entries(Tail(catalog))

\* the subsequence of entries whose normalised template the matcher accepts
Qualifying(catalog, a) ==
  LET Accepts(e) ==
        is_arn_match(e[2].resource, a, sub_placeholders(e[2].arn)) = "True"
      kept == SelectSeq(Entries(catalog), Accepts)
  IN [i \in 1..Len(kept) |-> <<kept[i][1], kept[i][2].resource>>]

\* C5: for a well-formed arn the scan does not raise, and when it returns the
\* printed pairs are exactly the qualifying catalog entries in catalog order:
\* none lost, added, duplicated or reordered, and none when nothing matches.
C5_ResolverOutput ==
  /\ WellFormed(arn) => rpc # "raised"
  /\ rpc = "done" => printed = Qualifying(iam_definition, arn)

\* reached: a returned scan over two services that printed an entry of each
\* and left at least one entry out
C5_Witness ==
  /\ rpc = "done" /\ WellFormed(arn)
  /\ Len(iam_definition) = 2
  /\ Len(printed) >= 2 /\ Len(printed) < Len(Entries(iam_definition))
  /\ printed[1][1] # printed[Len(printed)][1]

====
